---- MODULE Spec2Model ----
(***************************************************************************)
(* Portfolio site: the canvas backgrounds (ai-bg.js / header-bg.js and     *)
(* their saved revisions), the contact-form mailer, the typewriters, the   *)
(* sticky navigation and the slider, each as the state machine its event   *)
(* handlers make.                                                          *)
(*                                                                         *)
(* Units: lengths are whole CSS pixels unless a name says otherwise;       *)
(* devicePixelRatio and dpr are counted in quarters (4 = ratio 1.0); a     *)
(* bounding-rect side is counted in half pixels; time is in milliseconds.  *)
(***************************************************************************)
EXTENDS Integers, Sequences, FiniteSets, TLC

\* ----------------------------------------------------------------- bounds
MaxTime == 120
TrackedNodes == 1

\* ------------------------------------------------------ program constants
fps_wave == 45
fps_tesseract == 40
FPS == 30
targetFPS == 30
dprMax == 2
cfg_waves == 10
defaultRectHeight == 160
updateGap == 16

VARIABLES
  script,      \* the background script the page loaded
  now,         \* browser clock, the timestamp of the latest frame callback
  hidden,      \* document.hidden
  vp,          \* the window's current innerWidth/innerHeight/devicePixelRatio/rect
  width, height, dpr,
  canvasW, canvasH,
  lastFrame,   \* lastFrame / last / lastFrameTime
  visible,
  rafId,       \* "null" or "set": the rafId / raf variable
  pending,     \* animation-frame requests outstanding
  waves, nodes,
  drawn,       \* the last two frames put on the canvas, newest last
  thrown,      \* an exception escaped a handler
  mouseActive, \* mouse.active / mouseActive
  neuralFrames, \* the frames loop of ai-bg_20251029181134.js has rendered
  \* sendmail.php, one request
  method, post, pc, mailer, errorInfo, echoed, sends, forwarded, threw,
  \* header-typing.js
  tscript, text, wordIndex, charIndex, typing, timer, scheduled, shown,
  bscript,     \* the script that builds a tesseract
  verts4,      \* verts4 / headerVerts4
  edges,       \* edges / headerEdges
  vi,          \* loop variable i
  vj,          \* loop variable j
  bpc,         \* which loop is running
  roleIndex,   \* part_005: the global roleIndex
  roleChar,    \* part_005: the global charIndex
  rolePhase,   \* part_005: which of typeRole / eraseRole the pending call is
  \* the home page's nav scripts
  variant, isHome, navTop, scrollY, seenY, classes, events,
  \* slider.js
  imgs, index, transform, since, trail

canvasVars == <<script, now, hidden, vp, width, height, dpr, canvasW, canvasH,
                lastFrame, visible, rafId, pending, waves, nodes, drawn, thrown,
                mouseActive, neuralFrames>>
mailVars == <<method, post, pc, mailer, errorInfo, echoed, sends, forwarded, threw>>
typeVars == <<tscript, text, wordIndex, charIndex, typing, timer, scheduled, shown,
              roleIndex, roleChar, rolePhase>>
navVars == <<variant, isHome, navTop, scrollY, seenY, classes, events>>

sliderVars == <<imgs, index, transform, since, trail>>

tessVars == <<bscript, verts4, edges, vi, vj, bpc>>

vars == <<canvasVars, mailVars, typeVars, navVars, sliderVars, tessVars>>

\* a part of the site that the page or request at hand does not load
mailIdle ==
  /\ method = "none" /\ post = <<>> /\ pc = "none" /\ mailer = <<>>
  /\ errorInfo = <<>> /\ echoed = <<>> /\ sends = 0 /\ forwarded = <<>> /\ threw = "none"
typeIdle ==
  /\ tscript = "none" /\ text = <<>> /\ wordIndex = 0 /\ charIndex = 0
  /\ typing = TRUE /\ timer = 0 /\ scheduled = 0 /\ shown = 0
  /\ roleIndex = 0 /\ roleChar = 0 /\ rolePhase = "off"
tessIdle ==
  /\ bscript = "none" /\ verts4 = <<>> /\ edges = <<>> /\ vi = 0 /\ vj = 0 /\ bpc = "off"
canvasIdle ==
  /\ script = "none" /\ now = 0 /\ hidden = FALSE /\ vp = <<>>
  /\ width = 0 /\ height = 0 /\ dpr = 0 /\ canvasW = 0 /\ canvasH = 0
  /\ lastFrame = 0 /\ visible = TRUE /\ rafId = "null" /\ pending = 0
  /\ waves = <<>> /\ nodes = <<>> /\ drawn = <<>> /\ thrown = FALSE
  /\ mouseActive = FALSE /\ neuralFrames = 0
sliderIdle ==
  /\ imgs = 0 /\ index = 0 /\ transform = <<>> /\ since = 0 /\ trail = <<>>
navIdle ==
  /\ variant = "none" /\ isHome = FALSE /\ navTop = 0 /\ scrollY = 0
  /\ seenY = 0 /\ classes = {} /\ events = 0

\* ---------------------------------------------------------------- helpers
Min(a, b) == IF a < b THEN a ELSE b
Max(a, b) == IF a > b THEN a ELSE b

\* Math.floor(n / d) for d > 0 (\div of TLA+ already rounds toward minus infinity)
Floor(n, d) == n \div d

\* "cinematic1012" is ai-bg_20251029181012.js, whose init() calls a buildNodes
\* the file does not define
Scripts ==
  {"wave", "tesseract", "mesh0136", "mesh", "cinematic", "cinematic1012", "web", "neural"}

\* devicePixelRatio is not defined by the browser
Undefined == -1

\* The windows a page is shown in: sizes in px, devicePixelRatio in quarters,
\* the canvas' bounding rect in half pixels.
Viewports ==
  { [iw |-> 0,  ih |-> 0,  dpr |-> Undefined, rw |-> 0,  rh |-> 0],
    [iw |-> 0,  ih |-> 10, dpr |-> 2,         rw |-> 1,  rh |-> 21],
    [iw |-> 10, ih |-> 10, dpr |-> 0,         rw |-> 20, rh |-> 0],
    [iw |-> 10, ih |-> 20, dpr |-> 6,         rw |-> 21, rh |-> 40],
    [iw |-> 20, ih |-> 10, dpr |-> 12,        rw |-> 0,  rh |-> 3],
    [iw |-> 3,  ih |-> 10, dpr |-> 1,         rw |-> 6,  rh |-> 20] }

\* Timestamp steps between two frame callbacks
DtSet == {20, 40}

\* Clock time between the latest frame callback and an event that reads
\* performance.now()
EventGaps == {20}

\* ---------------------------------------------------------------- resize
\* window.devicePixelRatio || 1 with no upper limit, in quarters
unclampedDpr(v) == IF v = Undefined \/ v = 0 THEN 4 ELSE v

\* Math.min(window.devicePixelRatio || 1, cfg.dprMax), in quarters
clampDpr(v) == Min(IF v = Undefined \/ v = 0 THEN 4 ELSE v, dprMax * 4)

\* Math.floor(side * dpr)
backing(side, d) == Floor(side * d, 4)

\* the logical size each script's resize() keeps
logicalW(s, v) ==
  CASE s = "wave" -> Max(1, v.iw)
    [] s = "tesseract" -> Max(1, IF v.rw # 0 THEN Floor(v.rw, 2) ELSE v.iw)
    [] OTHER -> v.iw

logicalH(s, v) ==
  CASE s = "wave" -> Max(1, v.ih)
    [] s = "tesseract" -> Max(1, IF v.rh # 0 THEN Floor(v.rh, 2) ELSE defaultRectHeight)
    [] OTHER -> v.ih

\* canvas.width / canvas.height each script's resize() sets
canvasSide(s, side, d) ==
  IF s \in {"wave", "tesseract", "neural"}
    THEN backing(side, d)
    ELSE Max(1, backing(side, d))

resize(s, v) ==
  /\ vp' = v
  /\ dpr' = clampDpr(v.dpr)
  /\ width' = logicalW(s, v)
  /\ height' = logicalH(s, v)
  /\ canvasW' = canvasSide(s, logicalW(s, v), clampDpr(v.dpr))
  /\ canvasH' = canvasSide(s, logicalH(s, v), clampDpr(v.dpr))

\* ---------------------------------------------------------------- records
\* A record that was made for a viewport that resize() has since replaced
markStale(recs) == [i \in 1..Len(recs) |-> [recs[i] EXCEPT !.stale = TRUE]]

\* waves.length = 0, then cfg.waves pushes; offsetY is (i + 0.5) / cfg.waves
initWaves(old) ==
  LET emptied == SubSeq(old, 1, 0)
  IN  emptied \o [i \in 1..cfg_waves |-> [offsetY |-> i - 1, stale |-> FALSE]]

\* The configuration keys each mesh revision defines, of those its code reads
cfgKeys(s) ==
  CASE s = "mesh0136" -> {"baseNodes", "layerCount", "colors.blue", "colors.cyan", "colors.orange"}
    [] s = "mesh" -> {"baseNodes", "layerCount", "flowScale", "flowStrength", "pulseSpeed"}
    [] s = "cinematic" -> {"depth"}
    [] s = "web" -> {"nodeCount", "colors.blue", "colors.teal", "colors.orange", "colors.node"}
    [] s = "neural" -> {"neuronCount"}
    [] OTHER -> {}

\* How many records the build loop pushes.  The code asks for at least 50 (web),
\* 60 or 80 (mesh) or 85 (neural); the model follows TrackedNodes of them.  With
\* cfg.baseNodes undefined the count is NaN and `i < count` is never true.
nodeCount(s) ==
  CASE s \in {"mesh0136", "mesh", "cinematic"} ->
         IF "baseNodes" \in cfgKeys(s) THEN TrackedNodes ELSE 0
    [] s = "web" -> TrackedNodes
    [] s = "neural" -> TrackedNodes
    [] OTHER -> 0

\* Math.random(), in tenths
Randoms == {0, 9}

\* <<cos, sin>> of the angles pi/2 and pi
Angles == {<<0, 1>>, <<-1, 0>>}

\* the positions a new record can get in a viewport of wd x ht
spawn(s, wd, ht) ==
  CASE s = "mesh0136" ->
         { <<Floor((16 * rx - 30) * wd, 100), Floor((16 * ry - 30) * ht, 100)>> :
             rx \in Randoms, ry \in Randoms }
    [] s \in {"mesh", "cinematic"} ->
         { <<Floor((500 + 7 * a[1] * (8 * r + 20)) * wd, 1000),
             Floor((500 + 7 * a[2] * (8 * r + 20)) * ht, 1000)>> :
             a \in Angles, r \in Randoms }
    [] s = "web" ->
         { <<Floor((18 * rx - 40) * wd, 100), Floor((18 * ry - 40) * ht, 100)>> :
             rx \in Randoms, ry \in Randoms }
    [] s = "neural" ->
         { <<Floor((14 * rx - 20) * wd, 100), Floor((14 * ry - 20) * ht, 100)>> :
             rx \in Randoms, ry \in Randoms }
    [] OTHER -> {}

newNode(p) == [x |-> p[1], y |-> p[2], lastUpdate |-> 0, stale |-> FALSE]

\* nodes = []; then count pushes
buildNodes(s, wd, ht) ==
  { [i \in 1..nodeCount(s) |-> newNode(f[i])] : f \in [1..nodeCount(s) -> spawn(s, wd, ht)] }

\* ------------------------------------------------------- position updates
\* The most whole pixels one update takes the floor of a coordinate.  The 3D
\* web adds sin(..) * 0.18; the flow mesh adds vx = 0 * 0.95 + fx with
\* |fx| <= flowStrength = 0.14 on the one update it makes before drawMesh
\* throws; NeuralPathway.update adds cos(..) * dt * 0.05 with dt <= 32.
reach(s) == IF s = "neural" THEN 2 ELSE 1

\* the changes of the floor of a coordinate, whichever way the noise points
Moves(s) == (-reach(s))..reach(s)

\* The model keeps the floor c of a coordinate x, c <= x < c + 1, while the code
\* compares x itself with its thresholds: a wraparound operator gives the
\* floors the code can leave for some x of that floor.

\* a position that is left where the displacement put it
unwrapped(c, side) == {c}

\* if(x < -side * m / 10) x = side * (10 + m) / 10;
\* if(x > side * (10 + m) / 10) x = -side * m / 10
wrapAt(m, c, side) ==
  (IF 10 * c < -m * side THEN {Floor((10 + m) * side, 10)} ELSE {})
    \cup (IF 10 * (c + 1) > (10 + m) * side THEN {Floor(-m * side, 10)} ELSE {})
    \cup (IF 10 * (c + 1) > -m * side /\ 10 * c <= (10 + m) * side THEN {c} ELSE {})

\* part_004 drawMesh: if(n.x < -width*0.3) n.x = width*1.3; if(n.x > width*1.3) n.x = -width*0.3
wrapMesh(c, side) == wrapAt(3, c, side)

\* NeuralPathway.update: the same with a margin of 0.2
wrapNeural(c, side) == wrapAt(2, c, side)

\* floor(f + n / 10) for the fractions 0 <= f < 1
floorsOfSum(n) == IF n % 10 = 0 THEN {Floor(n, 10)} ELSE {Floor(n, 10), Floor(n, 10) + 1}

\* step: if(n.x < -width) n.x += width*1.8; if(n.x > width*2) n.x -= width*1.8
wrapWeb(c, side) ==
  (IF c < -side THEN {c + a : a \in floorsOfSum(18 * side)} ELSE {})
    \cup (IF c >= 2 * side THEN {c + a : a \in floorsOfSum(-18 * side)} ELSE {})
    \cup (IF c >= -side /\ c <= 2 * side THEN {c} ELSE {})

wrap(s, c, side) ==
  CASE s = "web" -> wrapWeb(c, side)
    [] s = "neural" -> wrapNeural(c, side)
    [] OTHER -> wrapMesh(c, side)

\* what one record can be after its position update at time t, displaced by d
moved(s, n, d, t) ==
  IF s \in {"mesh", "cinematic"} /\ ~(t - n.lastUpdate > updateGap)
    THEN {n}
    ELSE { [n EXCEPT !.x = px, !.y = py,
                     !.lastUpdate = IF s \in {"mesh", "cinematic"} THEN t ELSE 0] :
             px \in wrap(s, n.x + d[1], width), py \in wrap(s, n.y + d[2], height) }

\* every record updated, each by a displacement of its own
updateNodes(s, t) ==
  LET after(i) == UNION { moved(s, nodes[i], d, t) : d \in Moves(s) \X Moves(s) }
  IN  nodes' \in { f \in [1..Len(nodes) -> UNION { after(i) : i \in 1..Len(nodes) }] :
                     \A i \in 1..Len(nodes) : f[i] \in after(i) }

\* ------------------------------------------------------------ frame loop
\* a limiter that lets every callback later than the last frame draw
anyLater(t, last, f) == t > last

\* !(t - lastFrame < 1000 / fps)
frameDue(t, last, f) == ~((t - last) * f < 1000)

fps(s) ==
  CASE s = "wave" -> fps_wave
    [] s = "tesseract" -> fps_tesseract
    [] s = "neural" -> targetFPS
    [] OTHER -> FPS

\* clear() and the draw calls that follow it reached the canvas at time t
log(t) ==
  LET e == [t |-> t, hidden |-> hidden]
  IN  IF Len(drawn) < 2 THEN Append(drawn, e) ELSE <<drawn[2], e>>

\* drawMesh reads cfg.colors.blue / cfg.colors.cyan through mix(a, b, t), which
\* indexes a[0]: a TypeError when the key is undefined.  The layer loop runs when
\* cfg.layerCount is a number; the accent loop runs once per node.
drawMeshThrows(s, n) ==
  /\ ~({"colors.blue", "colors.cyan"} \subseteq cfgKeys(s))
  /\ "layerCount" \in cfgKeys(s) \/ Len(n) > 0

\* Renderer.applyBloom: drawImage of the main canvas (cw x ch) throws when it
\* is empty, and getImageData(0, 0, 0, 0) on the bloom buffer
\* (floor(width / 2) x floor(height / 2)) throws when that is empty
renderThrows(wd, ht, cw, ch) ==
  cw = 0 \/ ch = 0 \/ Floor(wd, 2) = 0 \/ Floor(ht, 2) = 0

\* render draws each particle with ctx.arc(x, y, size), size = 1 + (1 - z / cfg.depth) * 3,
\* and arc throws an IndexSizeError when size < 0, that is when z > 4/3 cfg.depth.
\* A particle starts at z < cfg.depth with |vel.z| < 0.1 and each update adds
\* vel * dt after vel *= dt (dt = 32): the first update moves it by less than
\* 45, the second by up to some 1450, the third by up to some 46000.  So the
\* frames that can throw are the third and those after it, when Math.random
\* and the noise made some particle go that deep.
arcThrows(k) == IF k >= 3 THEN BOOLEAN ELSE {FALSE}

\* requestAnimationFrame(f) by a running frame callback: the callback used up
\* one request and made one
rerequest == pending' = pending

\* the callback ended by an exception before it requested the next frame
abort == pending' = pending - 1 /\ thrown' = TRUE

\* The state when the script has been loaded and its init() has run.  No
\* script reads document.hidden when it starts: the tab can be in the
\* background already (hidden = TRUE), and the scripts that keep a flag
\* declare `let visible = true` all the same.  In ai-bg_20251029181134.js the
\* listeners are registered when the script is loaded and init() runs at
\* DOMContentLoaded: a visibilitychange to hidden in between is overwritten by
\* the `visible = true` of init(), which gives the same state.
CanvasInit ==
  /\ script \in Scripts
  /\ now = 0
  /\ hidden \in BOOLEAN
  /\ vp \in Viewports
  /\ dpr = clampDpr(vp.dpr)
  /\ width = logicalW(script, vp)
  /\ height = logicalH(script, vp)
  /\ canvasW = canvasSide(script, width, dpr)
  /\ canvasH = canvasSide(script, height, dpr)
  /\ lastFrame = 0
  /\ visible = TRUE
  /\ rafId = IF script \in {"mesh0136", "mesh", "cinematic", "web"} THEN "set" ELSE "null"
  /\ pending = IF script = "cinematic1012" THEN 0 ELSE 1
  /\ waves = IF script = "wave" THEN initWaves(<<>>) ELSE <<>>
  /\ nodes \in IF script = "neural"
                 THEN {markStale(b) : b \in buildNodes(script, 0, 0)}
                 ELSE buildNodes(script, width, height)
  /\ drawn = <<>>
  /\ thrown = (script = "cinematic1012")
  /\ mouseActive = FALSE
  /\ neuralFrames = 0
  /\ mailIdle /\ typeIdle /\ navIdle /\ sliderIdle /\ tessIdle

\* part_000 / part_006 drawFrame
DrawFrame ==
  /\ script \in {"wave", "tesseract"}
  /\ pending > 0
  /\ \E dt \in DtSet :
       /\ now + dt <= MaxTime
       /\ now' = now + dt
       /\ IF frameDue(now + dt, lastFrame, fps(script))
            THEN lastFrame' = now + dt /\ drawn' = log(now + dt)
            ELSE UNCHANGED <<lastFrame, drawn>>
  /\ rerequest
  /\ UNCHANGED <<script, hidden, vp, width, height, dpr, canvasW, canvasH,
                 visible, rafId, waves, nodes, thrown>>
  /\ UNCHANGED <<mouseActive, neuralFrames, mailVars, typeVars, navVars, sliderVars, tessVars>>

\* loop of the mesh revisions (ai-bg_20251029180136.js, part_004, part_005)
Loop ==
  /\ script \in {"mesh0136", "mesh", "cinematic"}
  /\ pending > 0
  /\ \E dt \in DtSet :
       /\ now + dt <= MaxTime
       /\ now' = now + dt
       /\ IF visible /\ frameDue(now + dt, lastFrame, fps(script))
            THEN /\ lastFrame' = now + dt
                 /\ drawn' = log(now + dt)
                 /\ IF script = "mesh0136"
                      THEN UNCHANGED nodes
                      ELSE updateNodes(script, now + dt)
                 /\ IF drawMeshThrows(script, nodes)
                      THEN abort /\ UNCHANGED rafId
                      ELSE rerequest /\ rafId' = "set" /\ UNCHANGED thrown
            ELSE /\ rerequest
                 /\ rafId' = "set"
                 /\ UNCHANGED <<lastFrame, drawn, nodes, thrown>>
  /\ UNCHANGED <<script, hidden, vp, width, height, dpr, canvasW, canvasH, visible, waves>>
  /\ UNCHANGED <<mouseActive, neuralFrames, mailVars, typeVars, navVars, sliderVars, tessVars>>

\* step of ai-bg_20251029175124.js: no frame limiter; draw() returns at once
\* when !visible
Step ==
  /\ script = "web"
  /\ pending > 0
  /\ \E dt \in DtSet :
       /\ now + dt <= MaxTime
       /\ now' = now + dt
       /\ updateNodes(script, now + dt)
       /\ IF visible
            THEN lastFrame' = now + dt /\ drawn' = log(now + dt)
            ELSE UNCHANGED <<lastFrame, drawn>>
  /\ rerequest
  /\ rafId' = "set"
  /\ UNCHANGED <<script, hidden, vp, width, height, dpr, canvasW, canvasH,
                 visible, waves, thrown>>
  /\ UNCHANGED <<mouseActive, neuralFrames, mailVars, typeVars, navVars, sliderVars, tessVars>>

\* loop of ai-bg_20251029181134.js.  updateParticles fills the array in the
\* first rendered frame; Particle.update then multiplies each velocity by dt
\* once per frame, because Vector3.mul changes the vector it is called on.
LoopNeural ==
  /\ script = "neural"
  /\ pending > 0
  /\ \E dt \in DtSet :
       /\ now + dt <= MaxTime
       /\ now' = now + dt
       /\ IF visible /\ frameDue(now + dt, lastFrame, fps(script))
            THEN /\ lastFrame' = now + dt
                 /\ updateNodes(script, now + dt)
                 /\ neuralFrames' = neuralFrames + 1
                 /\ drawn' = log(now + dt)
                 /\ \E arc \in arcThrows(neuralFrames + 1) :
                      IF arc \/ renderThrows(width, height, canvasW, canvasH)
                        THEN abort /\ UNCHANGED rafId
                        ELSE rerequest /\ rafId' = "set" /\ UNCHANGED thrown
            ELSE /\ rerequest
                 /\ rafId' = "set"
                 /\ UNCHANGED <<lastFrame, drawn, nodes, thrown, neuralFrames>>
  /\ UNCHANGED <<script, hidden, vp, width, height, dpr, canvasW, canvasH, visible, waves>>
  /\ UNCHANGED <<mouseActive, mailVars, typeVars, navVars, sliderVars, tessVars>>

\* a window resize event and the script's listener for it;
\* ai-bg_20251029181012.js never got as far as attach() and has none
ResizeEvent ==
  /\ \E v \in Viewports \ {vp} :
       /\ IF script = "cinematic1012"
            THEN vp' = v /\ UNCHANGED <<dpr, width, height, canvasW, canvasH>>
            ELSE resize(script, v)
       /\ CASE script = "wave" ->
                 waves' = initWaves(markStale(waves)) /\ UNCHANGED nodes
            [] script \in {"mesh0136", "mesh", "cinematic", "web"} ->
                 nodes' \in buildNodes(script, logicalW(script, v), logicalH(script, v))
                   /\ UNCHANGED waves
            [] script = "neural" ->
                 nodes' = markStale(nodes) /\ UNCHANGED waves
            [] OTHER -> UNCHANGED <<waves, nodes>>
  /\ UNCHANGED <<script, now, hidden, lastFrame, visible, rafId, pending, drawn, thrown>>
  /\ UNCHANGED <<mouseActive, neuralFrames, mailVars, typeVars, navVars, sliderVars, tessVars>>

\* start() / stop() of ai-bg_20251029175124.js
startStop(vis) ==
  IF vis
    THEN IF rafId = "set"
           THEN UNCHANGED <<rafId, pending>>
           ELSE rafId' = "set" /\ pending' = pending + 1
    ELSE IF rafId = "null"
           THEN UNCHANGED <<rafId, pending>>
           ELSE rafId' = "null" /\ pending' = Max(0, pending - 1)

\* document's visibilitychange event and the script's listener for it
VisibilityChange ==
  /\ hidden' = ~hidden
  /\ CASE script \in {"mesh0136", "mesh", "cinematic"} ->
            visible' = hidden /\ UNCHANGED <<rafId, pending, lastFrame>>
       [] script = "web" ->
            visible' = hidden /\ startStop(hidden) /\ UNCHANGED lastFrame
       [] script = "neural" ->
            /\ visible' = hidden
            /\ IF hidden
                 THEN \E g \in EventGaps :
                        /\ now + g <= MaxTime
                        /\ now' = now + g
                        /\ lastFrame' = now + g
                 ELSE UNCHANGED <<now, lastFrame>>
            /\ UNCHANGED <<rafId, pending>>
       [] OTHER -> UNCHANGED <<visible, rafId, pending, lastFrame>>
  /\ script # "neural" => UNCHANGED now
  /\ UNCHANGED <<script, vp, width, height, dpr, canvasW, canvasH,
                 waves, nodes, drawn, thrown>>
  /\ UNCHANGED <<mouseActive, neuralFrames, mailVars, typeVars, navVars, sliderVars, tessVars>>

\* mousemove / touchmove (active) and mouseout (not active) and the script's
\* listeners for them.  The wave background and the tesseract have none; the
\* mousemove listener of ai-bg_20251029181134.js only pushes particles, whose
\* movement is any of Moves already.
PointerEvent ==
  /\ script \in {"mesh0136", "mesh", "cinematic", "web"}
  /\ mouseActive' \in BOOLEAN
  /\ UNCHANGED <<script, now, hidden, vp, width, height, dpr, canvasW, canvasH,
                 lastFrame, visible, rafId, pending, waves, nodes, drawn, thrown>>
  /\ UNCHANGED <<neuralFrames, mailVars, typeVars, navVars, sliderVars, tessVars>>

CanvasNext ==
  DrawFrame \/ Loop \/ Step \/ LoopNeural \/ ResizeEvent \/ VisibilityChange \/ PointerEvent

SpecCanvas == CanvasInit /\ [][CanvasNext]_vars

\* the browser keeps delivering the animation-frame callbacks that were requested
FairSpecCanvas ==
  SpecCanvas /\ WF_vars(DrawFrame) /\ WF_vars(Loop) /\ WF_vars(Step) /\ WF_vars(LoopNeural)

\* the pages whose frame function has a frame limiter: every script but the 3D web
LimiterInit == CanvasInit /\ script # "web"

LimiterNext ==
  DrawFrame \/ Loop \/ LoopNeural \/ ResizeEvent \/ VisibilityChange \/ PointerEvent

SpecLimiter == LimiterInit /\ [][LimiterNext]_vars

\* the wave background and the header tesseract, the two pages whose resize()
\* keeps the logical size at 1 x 1 or more
ResizeInit == CanvasInit /\ script \in {"wave", "tesseract"}

ResizeNext == DrawFrame \/ ResizeEvent \/ VisibilityChange

SpecResize == ResizeInit /\ [][ResizeNext]_vars

\* ------------------------------------------------------------ C1 .. C6
\* a frame callback ran: the one step that advances the clock and leaves
\* document.hidden alone
frameCallback == now' # now /\ hidden' = hidden

\* a frame callback ran the frame function of a script that has a frame limiter
limitedFrame == frameCallback /\ script # "web"

\* C1: the frame limiter caps the render rate.  Whenever a frame callback with
\* timestamp t puts a frame on the canvas, t - lastFrame >= 1000 / fps held; a
\* callback that comes earlier draws nothing, leaves lastFrame as it was and
\* leaves one request outstanding; any two frames drawn one after the other are
\* at least 1000 / fps apart.
C1_FrameLimiter ==
  [][limitedFrame =>
       /\ drawn' # drawn => (now' - lastFrame) * fps(script) >= 1000
       /\ (now' - lastFrame) * fps(script) < 1000 =>
            drawn' = drawn /\ lastFrame' = lastFrame /\ pending' = pending /\ pending' = 1
       /\ Len(drawn') = 2 => (drawn'[2].t - drawn'[1].t) * fps(script) >= 1000]_vars

\* two frames are on the canvas and a later callback came too early to draw
C1_Witness ==
  /\ script = "wave"
  /\ Len(drawn) = 2
  /\ now > lastFrame
  /\ lastFrame = drawn[2].t
  /\ pending = 1

\* what resize() leaves in the wave background and the header tesseract, but for
\* the least size of the backing store
resizePost ==
  /\ dpr = (IF vp.dpr = Undefined \/ vp.dpr = 0 THEN 4 ELSE IF vp.dpr > 8 THEN 8 ELSE vp.dpr)
  /\ width >= 1 /\ height >= 1
  /\ 4 * canvasW <= width * dpr /\ width * dpr < 4 * (canvasW + 1)
  /\ 4 * canvasH <= height * dpr /\ height * dpr < 4 * (canvasH + 1)
  /\ canvasW <= 2 * width /\ canvasH <= 2 * height

\* C2 as stated: after every resize() of the wave background and the header
\* tesseract, dpr = min(devicePixelRatio or 1, 2), the logical size is at least
\* 1 x 1, the backing store is floor(w * dpr) x floor(h * dpr), at most twice the
\* logical size, and at least 1 x 1.
C2_Original ==
  script \in {"wave", "tesseract"} => resizePost /\ canvasW >= 1 /\ canvasH >= 1

\* C2 as amended: the same, but the backing store is at least 1 x 1 only when
\* dpr >= 1; below that a side of floor(w * dpr) can be 0.
C2_ResizePost ==
  script \in {"wave", "tesseract"} =>
    resizePost /\ (dpr >= 4 => canvasW >= 1 /\ canvasH >= 1)

\* the wave background in a 0-px-wide window at devicePixelRatio 0.5, after a
\* frame was drawn: w = 1 and the backing store is 0 wide
C2_Witness ==
  /\ script = "wave"
  /\ vp.dpr = 2 /\ dpr = 2
  /\ width = 1 /\ canvasW = 0
  /\ Len(drawn) > 0

allFresh(recs) == \A i \in 1..Len(recs) : ~recs[i].stale

\* C3: every resize event regenerates the records: afterwards the waves array
\* holds exactly cfg.waves entries (none in a script without waves) and no wave
\* or node made for an earlier viewport is left.
C3_RegeneratedOnResize ==
  [][ResizeEvent =>
       /\ Len(waves') = (IF script = "wave" THEN cfg_waves ELSE 0)
       /\ allFresh(waves')
       /\ allFresh(nodes')]_vars

\* a position update ran in this step: a frame callback (the one step that
\* leaves both the viewport and document.hidden alone), in the 3D web always,
\* elsewhere when the page is visible and the frame is due
positionUpdate ==
  /\ vp' = vp /\ hidden' = hidden
  /\ \/ script = "web"
     \/ /\ script \in {"mesh", "cinematic", "neural"}
        /\ visible
        /\ (now' - lastFrame) * fps(script) >= 1000

\* a coordinate whose floor is c lies in [lo * side / 10, hi * side / 10]
within(c, lo, hi, side) == Floor(lo * side, 10) <= c /\ c <= Floor(hi * side, 10)

\* C4 as stated: after the wraparound step of a position update every record
\* is on the canvas, 0 <= x <= width and 0 <= y <= height.
C4_Original ==
  [][positionUpdate =>
       \A i \in 1..Len(nodes') :
         /\ within(nodes'[i].x, 0, 10, width)
         /\ within(nodes'[i].y, 0, 10, height)]_vars

\* the margin each script wraps at: tenths of the side, below 0 and above 1
margin(s) == CASE s = "web" -> 10 [] s = "neural" -> 2 [] OTHER -> 3

\* C4 as amended: after the wraparound step of a position update every record
\* is within the canvas widened by the script's margin on each side, 0.3 of the
\* side in the flow mesh, 0.2 for the neural pathways, and the whole side in
\* the 3D web, there provided the side is at least 1 px.
C4_WithinMargin ==
  [][positionUpdate =>
       \A i \in 1..Len(nodes') :
         /\ (script = "web" /\ width = 0)
              \/ within(nodes'[i].x, -margin(script), 10 + margin(script), width)
         /\ (script = "web" /\ height = 0)
              \/ within(nodes'[i].y, -margin(script), 10 + margin(script), height)]_vars

\* a neuron that two position updates took left of -0.2 * width and the
\* wraparound put at 1.2 * width, off the canvas
C4_Witness ==
  /\ script = "neural"
  /\ width = 10
  /\ Len(drawn) = 2
  /\ nodes[1].x = 12

\* C5: in the wave background, the flow mesh and the 3D web, between a
\* visibilitychange to hidden and the next one to visible no frame is put on
\* the canvas, whatever callbacks the browser delivers.
C5_PausedWhileHidden ==
  script \in {"wave", "mesh0136", "web"} =>
    \A i \in 1..Len(drawn) : ~drawn[i].hidden

\* C6: the frame function of a mesh revision never raises an error and always
\* leaves the next frame requested, whichever configuration keys are undefined.
C6_NoErrorPath ==
  script \in {"mesh0136", "mesh", "cinematic"} => ~thrown /\ pending >= 1

\* ----------------------------------------------------------- sendmail.php
Methods == {"GET", "POST", "HEAD"}

recipient == "daskoustav88@gmail.com"

\* what a visitor's form can put in each field
FieldValues(k) ==
  CASE k = "name" -> {"Ann"}
    [] k = "email" -> {"ann@example.com", "ann"}
    [] OTHER -> {"", "Hello"}

\* $_POST: PHP fills it from the body of a POST request only
Posts(m) ==
  IF m = "POST"
    THEN UNION { { f \in [S -> UNION {FieldValues(k) : k \in S}] :
                     \A k \in S : f[k] \in FieldValues(k) } :
                 S \in SUBSET {"name", "email", "message"} }
    ELSE { [k \in {} |-> ""] }

\* $_POST['k'] where a string is wanted: an undefined key reads as null, ""
field(p, k) == IF k \in DOMAIN p THEN p[k] ELSE ""

\* PHPMailer::validateAddress
validateAddress(a) == a \in {"ann@example.com", recipient}

\* how PHPMailer::send() can end: delivered, or an exception with this ErrorInfo
sendOutcomes == {"ok", "SMTP connect() failed.", "SMTP Error: Could not authenticate."}

successText == <<"Message sent successfully!">>
failureText(info) == <<"Failed to send: ", info>>

MailInit ==
  /\ method \in Methods
  /\ post \in Posts(method)
  /\ pc = "new"
  /\ mailer = [k \in {} |-> ""]
  /\ errorInfo = ""
  /\ echoed = <<>>
  /\ sends = 0
  /\ forwarded = <<>>
  /\ threw = "none"
  /\ canvasIdle /\ typeIdle /\ navIdle /\ sliderIdle /\ tessIdle

set(m, k, v) == [j \in DOMAIN m \cup {k} |-> IF j = k THEN v ELSE m[j]]

\* line 10: new PHPMailer(true), exceptions on
NewMailer ==
  /\ pc = "new"
  /\ mailer' = set(mailer, "exceptions", "true")
  /\ pc' = "smtp"
  /\ UNCHANGED <<method, post, errorInfo, echoed, sends, forwarded, threw>>
  /\ UNCHANGED <<canvasVars, typeVars, navVars, sliderVars, tessVars>>

\* the settings lines 14-20 assign; the password stands for the literal of line 18
smtp ==
  [Mailer |-> "smtp", Host |-> "smtp.gmail.com", SMTPAuth |-> "true",
   Username |-> "daskoustav88@gmail.com", Password |-> "literal of line 18",
   SMTPSecure |-> "tls", Port |-> "587"]

\* lines 14-20
SmtpSettings ==
  /\ pc = "smtp"
  /\ mailer' = [k \in DOMAIN mailer \cup DOMAIN smtp |->
                  IF k \in DOMAIN smtp THEN smtp[k] ELSE mailer[k]]
  /\ pc' = "setFrom"
  /\ UNCHANGED <<method, post, errorInfo, echoed, sends, forwarded, threw>>
  /\ UNCHANGED <<canvasVars, typeVars, navVars, sliderVars, tessVars>>

\* a mailer call that checks an address: it sets the key, or sets ErrorInfo and throws
addressCall(call, key, a) ==
  IF validateAddress(a)
    THEN /\ mailer' = set(mailer, key, a)
         /\ UNCHANGED <<errorInfo, threw>>
    ELSE /\ errorInfo' = "Invalid address"
         /\ threw' = call
         /\ UNCHANGED mailer

\* line 23: $mail->setFrom($_POST['email'], $_POST['name'])
SetFrom ==
  /\ pc = "setFrom"
  /\ IF validateAddress(field(post, "email"))
       THEN /\ mailer' = set(set(mailer, "From", field(post, "email")),
                             "FromName", field(post, "name"))
            /\ UNCHANGED <<errorInfo, threw>>
       ELSE /\ errorInfo' = "Invalid address"
            /\ threw' = "setFrom"
            /\ UNCHANGED mailer
  /\ pc' = IF validateAddress(field(post, "email")) THEN "addAddress" ELSE "catch"
  /\ UNCHANGED <<method, post, echoed, sends, forwarded>>
  /\ UNCHANGED <<canvasVars, typeVars, navVars, sliderVars, tessVars>>

\* an addAddress that sends the message to the address the visitor posted
AddAddressPosted ==
  /\ pc = "addAddress"
  /\ addressCall("addAddress", "To", field(post, "email"))
  /\ pc' = IF validateAddress(field(post, "email")) THEN "content" ELSE "catch"
  /\ UNCHANGED <<method, post, echoed, sends, forwarded>>
  /\ UNCHANGED <<canvasVars, typeVars, navVars, sliderVars, tessVars>>

\* line 24: $mail->addAddress('daskoustav88@gmail.com')
AddAddress ==
  /\ pc = "addAddress"
  /\ addressCall("addAddress", "To", recipient)
  /\ pc' = IF validateAddress(recipient) THEN "content" ELSE "catch"
  /\ UNCHANGED <<method, post, echoed, sends, forwarded>>
  /\ UNCHANGED <<canvasVars, typeVars, navVars, sliderVars, tessVars>>

\* lines 27-28: Subject and the interpolated Body
Content ==
  /\ pc = "content"
  /\ mailer' = set(set(set(set(mailer, "Subject", "New message from portfolio"),
                          "Body.Name", field(post, "name")),
                      "Body.Email", field(post, "email")),
                  "Body.Message", field(post, "message"))
  /\ pc' = "send"
  /\ UNCHANGED <<method, post, errorInfo, echoed, sends, forwarded, threw>>
  /\ UNCHANGED <<canvasVars, typeVars, navVars, sliderVars, tessVars>>

\* line 31: $mail->send()
Send ==
  /\ pc = "send"
  /\ sends' = sends + 1
  /\ \E o \in sendOutcomes :
       IF o = "ok"
         THEN /\ forwarded' = Append(forwarded, mailer)
              /\ pc' = "echo"
              /\ UNCHANGED <<errorInfo, threw>>
         ELSE /\ errorInfo' = o
              /\ threw' = "send"
              /\ pc' = "catch"
              /\ UNCHANGED forwarded
  /\ UNCHANGED <<method, post, mailer, echoed>>
  /\ UNCHANGED <<canvasVars, typeVars, navVars, sliderVars, tessVars>>

\* line 32: echo 'Message sent successfully!'
EchoSuccess ==
  /\ pc = "echo"
  /\ echoed' = Append(echoed, successText)
  /\ pc' = "done"
  /\ UNCHANGED <<method, post, mailer, errorInfo, sends, forwarded, threw>>
  /\ UNCHANGED <<canvasVars, typeVars, navVars, sliderVars, tessVars>>

\* a handler that goes on to the success text after reporting the failure
CatchThenSuccess ==
  /\ pc = "catch"
  /\ echoed' = echoed \o <<failureText(errorInfo), successText>>
  /\ pc' = "done"
  /\ UNCHANGED <<method, post, mailer, errorInfo, sends, forwarded, threw>>
  /\ UNCHANGED <<canvasVars, typeVars, navVars, sliderVars, tessVars>>

\* lines 33-35: catch (Exception $e) { echo 'Failed to send: ', $mail->ErrorInfo; }
Catch ==
  /\ pc = "catch"
  /\ echoed' = Append(echoed, failureText(errorInfo))
  /\ pc' = "done"
  /\ UNCHANGED <<method, post, mailer, errorInfo, sends, forwarded, threw>>
  /\ UNCHANGED <<canvasVars, typeVars, navVars, sliderVars, tessVars>>

MailNext ==
  NewMailer \/ SmtpSettings \/ SetFrom \/ AddAddress \/ Content \/ Send \/ EchoSuccess \/ Catch

SpecMail == MailInit /\ [][MailNext]_vars

\* C7: every request ends with exactly one outcome text and none is echoed
\* before the end: the success text if and only if no mailer call of the try
\* block threw; when setFrom, addAddress or send threw, 'Failed to send: '
\* followed by the mailer's ErrorInfo, and the success text is not echoed.
C7_OneOutcome ==
  /\ pc # "done" => echoed = <<>>
  /\ pc = "done" =>
       /\ Len(echoed) = 1
       /\ echoed[1] = <<"Message sent successfully!">> <=> threw = "none"
       /\ threw # "none" => echoed[1] = <<"Failed to send: ", errorInfo>>
       /\ threw = "none" => sends = 1 /\ Len(forwarded) = 1

\* a request whose send() threw: the one text echoed is the failure text
C7_Witness ==
  /\ pc = "done"
  /\ threw = "send"
  /\ sends = 1
  /\ echoed = << <<"Failed to send: ", "SMTP connect() failed.">> >>

\* C8: send() is attempted only for a POST request that carries the fields
\* name, email and message; for any other request nothing is sent or forwarded.
C8_PostWithFieldsOnly ==
  sends > 0 \/ forwarded # <<>> =>
    method = "POST" /\ DOMAIN post = {"name", "email", "message"}

\* ------------------------------------------------------- header-typing.js
\* A word is the sequence of its characters.
words_header ==
  << <<"c", "o", "d", "e", "r">>,
     <<"e", "d", "i", "t", "o", "r">>,
     <<"D", "e", "v", "e", "l", "o", "p", "e", "r">> >>

words_effect ==
  << <<"D", "e", "v", "e", "l", "o", "p", "e", "r">>,
     <<"M", "a", "c", "h", "i", "n", "e", " ", "L", "e", "a", "r", "n", "i", "n", "g", " ", "E", "n", "t", "h", "u", "s", "i", "a", "s", "t">>,
     <<"C", "o", "d", "e", "r">>,
     <<"E", "d", "i", "t", "o", "r">> >>

words(s) == IF s = "header" THEN words_header ELSE words_effect

header_typeSpeed == 80
header_eraseSpeed == 50
header_holdDelay == 1200
effect_typeSpeed == 90
effect_eraseSpeed == 45
effect_holdDelay == 1800
nextDelay == 400

\* String.prototype.slice(a, b) for a >= 0: a negative b counts from the end
slice(w, a, b) ==
  LET e == IF b < 0 THEN Max(Len(w) + b, 0) ELSE Min(b, Len(w))
  IN  SubSeq(w, a + 1, e)

\* a substring that ignores its end index
substringToEnd(w, a, b) == SubSeq(w, a + 1, Len(w))

\* String.prototype.substring(a, b): both ends clamped to 0..length, then ordered
substring(w, a, b) ==
  LET ca == Max(0, Min(a, Len(w)))
      cb == Max(0, Min(b, Len(w)))
  IN  SubSeq(w, Min(ca, cb) + 1, Max(ca, cb))

\* a word list that stays on its last word
nextWordNoWrap(i, n) == IF i + 1 < n THEN i + 1 ELSE i

\* (wordIndex + 1) % words.length
nextWord(i, n) == (i + 1) % n

\* the 1-based place of the word the element now shows in full, else what it was
fullWord(s, t, i) == IF t = words(s)[i + 1] THEN i + 1 ELSE shown

TypingInit ==
  /\ tscript \in {"header", "effect"}
  /\ text = <<>>
  /\ wordIndex = 0
  /\ charIndex = 0
  /\ typing = TRUE
  /\ timer = 0
  /\ scheduled = 1
  /\ shown = 0
  /\ roleIndex = 0 /\ roleChar = 0 /\ rolePhase = "off"
  /\ canvasIdle /\ mailIdle /\ navIdle /\ sliderIdle /\ tessIdle

\* a tick() that waits typeSpeed after the last character of a word
TickNoHold ==
  /\ tscript = "header"
  /\ scheduled > 0
  /\ LET word == words_header[wordIndex + 1]
     IN  IF typing
           THEN /\ text' = slice(word, 0, charIndex + 1)
                /\ charIndex' = charIndex + 1
                /\ IF charIndex + 1 = Len(word)
                     THEN typing' = FALSE /\ timer' = header_typeSpeed
                     ELSE typing' = typing /\ timer' = header_typeSpeed
                /\ wordIndex' = wordIndex
                /\ shown' = fullWord(tscript, slice(word, 0, charIndex + 1), wordIndex)
           ELSE /\ text' = slice(word, 0, charIndex - 1)
                /\ charIndex' = charIndex - 1
                /\ IF charIndex - 1 = 0
                     THEN /\ typing' = TRUE
                          /\ wordIndex' = nextWord(wordIndex, Len(words_header))
                          /\ timer' = nextDelay
                     ELSE /\ typing' = typing
                          /\ wordIndex' = wordIndex
                          /\ timer' = header_eraseSpeed
                /\ shown' = fullWord(tscript, slice(word, 0, charIndex - 1), wordIndex)
  /\ scheduled' = (scheduled - 1) + 1
  /\ UNCHANGED <<tscript, roleIndex, roleChar, rolePhase>>
  /\ UNCHANGED <<canvasVars, mailVars, navVars, sliderVars, tessVars>>

\* part_003 tick(): the pending call runs and sets one timeout
Tick ==
  /\ tscript = "header"
  /\ scheduled > 0
  /\ LET word == words_header[wordIndex + 1]
     IN  IF typing
           THEN /\ text' = slice(word, 0, charIndex + 1)
                /\ charIndex' = charIndex + 1
                /\ IF charIndex + 1 = Len(word)
                     THEN typing' = FALSE /\ timer' = header_holdDelay
                     ELSE typing' = typing /\ timer' = header_typeSpeed
                /\ wordIndex' = wordIndex
                /\ shown' = fullWord(tscript, slice(word, 0, charIndex + 1), wordIndex)
           ELSE /\ text' = slice(word, 0, charIndex - 1)
                /\ charIndex' = charIndex - 1
                /\ IF charIndex - 1 = 0
                     THEN /\ typing' = TRUE
                          /\ wordIndex' = nextWord(wordIndex, Len(words_header))
                          /\ timer' = nextDelay
                     ELSE /\ typing' = typing
                          /\ wordIndex' = wordIndex
                          /\ timer' = header_eraseSpeed
                /\ shown' = fullWord(tscript, slice(word, 0, charIndex - 1), wordIndex)
  /\ scheduled' = (scheduled - 1) + 1
  /\ UNCHANGED <<tscript, roleIndex, roleChar, rolePhase>>
  /\ UNCHANGED <<canvasVars, mailVars, navVars, sliderVars, tessVars>>

\* part_005 typeEffect()
TypeEffect ==
  /\ tscript \in {"effect", "roles"}
  /\ rolePhase # "start"
  /\ scheduled > 0
  /\ LET currentWord == words_effect[wordIndex + 1]
     IN  IF typing
           THEN /\ text' = substring(currentWord, 0, charIndex + 1)
                /\ charIndex' = charIndex + 1
                /\ IF charIndex + 1 < Len(currentWord)
                     THEN typing' = typing /\ timer' = effect_typeSpeed
                     ELSE typing' = FALSE /\ timer' = effect_holdDelay
                /\ wordIndex' = wordIndex
                /\ shown' = fullWord(tscript, substring(currentWord, 0, charIndex + 1), wordIndex)
           ELSE /\ text' = substring(currentWord, 0, charIndex - 1)
                /\ charIndex' = charIndex - 1
                /\ IF charIndex - 1 > 0
                     THEN /\ typing' = typing
                          /\ wordIndex' = wordIndex
                          /\ timer' = effect_eraseSpeed
                     ELSE /\ typing' = TRUE
                          /\ wordIndex' = nextWord(wordIndex, Len(words_effect))
                          /\ timer' = nextDelay
                /\ shown' = fullWord(tscript, substring(currentWord, 0, charIndex - 1), wordIndex)
  /\ scheduled' = (scheduled - 1) + 1
  /\ UNCHANGED <<tscript, roleIndex, roleChar, rolePhase>>
  /\ UNCHANGED <<canvasVars, mailVars, navVars, sliderVars, tessVars>>

TypingNext == Tick \/ TypeEffect

SpecTyping == TypingInit /\ [][TypingNext]_vars

\* a timeout that was set does fire
FairSpecTyping == SpecTyping /\ WF_vars(Tick) /\ WF_vars(TypeEffect)

\* ------------------------------------------- part_005: two typewriters
\* The global roles list of part_005
roles ==
  << <<"C", "o", "d", "e", "r">>,
     <<"E", "d", "i", "t", "o", "r">>,
     words_effect[2],
     <<"D", "e", "v", "e", "l", "o", "p", "e", "r">> >>

\* String.prototype.charAt(i): the empty string past the end
charAt(w, i) == IF i < Len(w) THEN <<w[i + 1]>> ELSE <<>>

\* part_005 loaded where #role-text was already in the document: the global
\* roleText is the element, and DOMContentLoaded calls typeRole() of the first
\* listener and then typeEffect() of the second
RolesInit ==
  /\ tscript = "roles"
  /\ text = <<>>
  /\ wordIndex = 0
  /\ charIndex = 0
  /\ typing = TRUE
  /\ timer = 0
  /\ scheduled = 1
  /\ shown = 0
  /\ roleIndex = 0 /\ roleChar = 0 /\ rolePhase = "start"
  /\ canvasIdle /\ mailIdle /\ navIdle /\ sliderIdle /\ tessIdle

\* part_005 typeRole()
TypeRole ==
  /\ tscript = "roles"
  /\ rolePhase \in {"start", "type"}
  /\ IF roleChar < Len(roles[roleIndex + 1])
       THEN /\ text' = text \o charAt(roles[roleIndex + 1], roleChar)
            /\ roleChar' = roleChar + 1
            /\ rolePhase' = "type"
       ELSE /\ rolePhase' = "erase"
            /\ UNCHANGED <<text, roleChar>>
  /\ UNCHANGED <<tscript, wordIndex, charIndex, typing, timer, scheduled, shown, roleIndex>>
  /\ UNCHANGED <<canvasVars, mailVars, navVars, sliderVars, tessVars>>

\* part_005 eraseRole()
EraseRole ==
  /\ tscript = "roles"
  /\ rolePhase = "erase"
  /\ IF roleChar > 0
       THEN /\ text' = substring(roles[roleIndex + 1], 0, roleChar - 1)
            /\ roleChar' = roleChar - 1
            /\ UNCHANGED <<roleIndex, rolePhase>>
       ELSE /\ roleIndex' = IF roleIndex + 1 >= Len(roles) THEN 0 ELSE roleIndex + 1
            /\ rolePhase' = "type"
            /\ UNCHANGED <<text, roleChar>>
  /\ UNCHANGED <<tscript, wordIndex, charIndex, typing, timer, scheduled, shown>>
  /\ UNCHANGED <<canvasVars, mailVars, navVars, sliderVars, tessVars>>

RolesNext == TypeRole \/ EraseRole \/ TypeEffect

SpecRoles == RolesInit /\ [][RolesNext]_vars

MaxWords == Max(Len(words_header), Len(words_effect))

\* C9: the typewriter loops forever through its words in array order: every
\* word is shown in full again and again, the first one first; the word shown
\* in full after words[i] is words[(i + 1) mod n]; and exactly one tick is
\* always scheduled, so the effect never stops.
C9_CyclesForever ==
  /\ \A i \in 1..MaxWords :
       []<>(i > Len(words(tscript)) \/ (text = words(tscript)[i] /\ shown = i))
  /\ [][shown' # shown => shown' = (shown % Len(words(tscript))) + 1]_vars
  /\ [](scheduled = 1)

\* the last word of the list was shown in full and erased, and the first word
\* is being typed again
C9_Witness ==
  /\ tscript = "header"
  /\ shown = Len(words_header)
  /\ wordIndex = 0
  /\ typing
  /\ text = <<"c", "o">>
  /\ scheduled = 1

\* --------------------------------------------- home-nav-sticky.js, part_002
MaxScroll == 52
MaxEvents == 3

scrollThreshold == 50

\* window.scrollY as the page can have it
ScrollPositions == {0} \cup (scrollThreshold - 2)..MaxScroll

\* nav.offsetTop as the layout can give it
NavTops == {0, scrollThreshold - 1, MaxScroll}

\* the class each variant toggles
navClass(v) == IF v = "sticky" THEN "is-sticky" ELSE "scrolled"

\* a test that takes the threshold itself as scrolled
atOrPast(v, y, top) == IF v = "sticky" THEN y >= top ELSE y >= scrollThreshold

\* the test of handleScroll: window.scrollY > 50, or window.scrollY >= navTop
past(v, y, top) == IF v = "sticky" THEN y >= top ELSE y > scrollThreshold

\* handleScroll(): classList.add / classList.remove by the test
handleScroll(v, y, top, cl) ==
  IF past(v, y, top) THEN cl \cup {navClass(v)} ELSE cl \ {navClass(v)}

\* the page before DOMContentLoaded: the nav may carry the class in its markup
NavInit ==
  /\ variant \in {"scrolled", "sticky"}
  /\ isHome \in BOOLEAN
  /\ navTop \in (IF variant = "sticky" THEN NavTops ELSE {0})
  /\ scrollY \in ScrollPositions
  /\ seenY = -1
  /\ classes \in {{}, {navClass(variant)}}
  /\ events = 0
  /\ canvasIdle /\ mailIdle /\ typeIdle /\ sliderIdle /\ tessIdle

\* the DOMContentLoaded listener: return unless body.home-page, else the
\* initial handleScroll() and the scroll listener
Loaded ==
  /\ seenY = -1
  /\ isHome
  /\ classes' = handleScroll(variant, scrollY, navTop, classes)
  /\ seenY' = scrollY
  /\ UNCHANGED <<variant, isHome, navTop, scrollY, events>>
  /\ UNCHANGED <<canvasVars, mailVars, typeVars, sliderVars, tessVars>>

\* the visitor scrolls; the scroll event follows later
ScrollTo ==
  /\ \E y \in ScrollPositions \ {scrollY} : scrollY' = y
  /\ UNCHANGED <<variant, isHome, navTop, seenY, classes, events>>
  /\ UNCHANGED <<canvasVars, mailVars, typeVars, sliderVars, tessVars>>

\* a scroll event reaches the listener
ScrollEvent ==
  /\ seenY # -1
  /\ events < MaxEvents
  /\ events' = events + 1
  /\ classes' = handleScroll(variant, scrollY, navTop, classes)
  /\ seenY' = scrollY
  /\ UNCHANGED <<variant, isHome, navTop, scrollY>>
  /\ UNCHANGED <<canvasVars, mailVars, typeVars, sliderVars, tessVars>>

NavNext == Loaded \/ ScrollTo \/ ScrollEvent

SpecNav == NavInit /\ [][NavNext]_vars

\* C10: on the home page, once the initial check or a scroll event has run at
\* the current position, the nav carries 'scrolled' exactly when scrollY > 50,
\* in the sticky variant 'is-sticky' exactly when scrollY >= the offsetTop taken
\* at load; a further scroll event at the same position changes no class.
C10_NavClass ==
  /\ [](seenY = scrollY =>
          /\ variant = "scrolled" => ("scrolled" \in classes <=> scrollY > 50)
          /\ variant = "sticky" => ("is-sticky" \in classes <=> scrollY >= navTop))
  /\ [][ScrollEvent /\ seenY = scrollY => classes' = classes]_vars

\* two scroll events have run, the page is at scrollY = 50 and the class that
\* the markup had is gone
C10_Witness ==
  /\ variant = "scrolled"
  /\ events = 2
  /\ scrollY = 50 /\ seenY = 50
  /\ classes = {}

\* ---------------------------------------------------------------- slider.js
MaxImages == 3

interval == 4000

\* the clock is followed in steps of half the timer's interval
Quantum == interval \div 2

\* the % of JavaScript: the remainder takes the sign of the dividend
rem(a, n) == IF a >= 0 THEN a % n ELSE -((-a) % n)

\* an index that is reduced without first adding images.length
remOnly(i, n) == rem(i, n)

\* an index that stops at the ends instead of wrapping
clamped(i, n) == Max(0, Min(i, n - 1))

\* showSlide: index = (i + images.length) % images.length
slideIndex(i, n) == rem(i + n, n)

\* `translateX(-${index * 100}%)`
translateX(i) == <<"translateX(-", i * 100, "%)">>

\* the slide that a transform of the track brings into view; none set shows slide 0
slideShown(t) == IF t = <<>> THEN 0 ELSE t[2] \div 100

\* the latest MaxImages + 1 entries of the slider's history, the page load
\* first: who called showSlide, the index it left, and the time since the
\* timer last fired
remember(op) ==
  LET e == [op |-> op, to |-> index', at |-> since]
  IN  trail' = IF Len(trail) <= MaxImages THEN Append(trail, e) ELSE Append(Tail(trail), e)

showSlide(i) ==
  /\ index' = slideIndex(i, imgs)
  /\ transform' = translateX(slideIndex(i, imgs))

\* the page with at least one slide image, the script run to its end
SliderInit ==
  /\ imgs \in 1..MaxImages
  /\ index = 0
  /\ transform = <<>>
  /\ since = 0
  /\ trail = <<[op |-> "load", to |-> 0, at |-> 0]>>
  /\ canvasIdle /\ mailIdle /\ typeIdle /\ navIdle /\ tessIdle

\* a click that also starts the timer's interval afresh
PrevClickRestart ==
  /\ imgs > 0
  /\ showSlide(index - 1)
  /\ remember("prev")
  /\ since' = 0
  /\ UNCHANGED imgs
  /\ UNCHANGED <<canvasVars, mailVars, typeVars, navVars, tessVars>>

\* line 11: .prev onclick
PrevClick ==
  /\ imgs > 0
  /\ showSlide(index - 1)
  /\ remember("prev")
  /\ UNCHANGED <<imgs, since>>
  /\ UNCHANGED <<canvasVars, mailVars, typeVars, navVars, tessVars>>

\* line 12: .next onclick
NextClick ==
  /\ imgs > 0
  /\ showSlide(index + 1)
  /\ remember("next")
  /\ UNCHANGED <<imgs, since>>
  /\ UNCHANGED <<canvasVars, mailVars, typeVars, navVars, tessVars>>

\* time passes while the interval timer is not yet due
Elapse ==
  /\ imgs > 0
  /\ since + Quantum <= interval
  /\ since' = since + Quantum
  /\ UNCHANGED <<imgs, index, transform, trail>>
  /\ UNCHANGED <<canvasVars, mailVars, typeVars, navVars, tessVars>>

\* line 14: the setInterval callback, due every 4000 ms
AutoAdvance ==
  /\ imgs > 0
  /\ since = interval
  /\ showSlide(index + 1)
  /\ remember("timer")
  /\ since' = 0
  /\ UNCHANGED imgs
  /\ UNCHANGED <<canvasVars, mailVars, typeVars, navVars, tessVars>>

SliderNext == PrevClick \/ NextClick \/ Elapse \/ AutoAdvance

SpecSlider == SliderInit /\ [][SliderNext]_vars

\* time passes and a due timer callback runs
FairSpecSlider == SpecSlider /\ WF_vars(Elapse) /\ WF_vars(AutoAdvance)

\* C11: after any sequence of prev clicks, next clicks and timer ticks, with at
\* least one image, index is in 0..images.length-1, the slide in view is slide
\* index, and once showSlide has run the track's transform is
\* translateX(-index*100%).
C11_IndexInRange ==
  /\ index \in 0..(imgs - 1)
  /\ slideShown(transform) = index
  /\ trail[Len(trail)].op # "load" => transform = <<"translateX(-", index * 100, "%)">>

\* prev was clicked on slide 0 of three and the last slide is in view
C11_Witness ==
  /\ imgs = 3
  /\ Len(trail) = 2
  /\ trail[2].op = "prev"
  /\ index = 2
  /\ transform = <<"translateX(-", 200, "%)">>

forward(k) == trail[k].op \in {"next", "timer"}

\* C12: navigation wraps in both directions and prev and next undo each other:
\* a next step from the last slide leaves slide 0 and from any other the slide
\* after it, a prev step from slide 0 leaves the last slide and from any other
\* the slide before it; prev then next, and next then prev, leave the slide
\* they started from; images.length next steps in a row leave the slide they
\* started from.
C12_WrapAndInverse ==
  /\ index = trail[Len(trail)].to
  /\ \A k \in 2..Len(trail) :
       /\ forward(k) =>
            trail[k].to = (IF trail[k - 1].to = imgs - 1 THEN 0 ELSE trail[k - 1].to + 1)
       /\ trail[k].op = "prev" =>
            trail[k].to = (IF trail[k - 1].to = 0 THEN imgs - 1 ELSE trail[k - 1].to - 1)
  /\ \A k \in 3..Len(trail) :
       (forward(k) /\ trail[k - 1].op = "prev") \/ (trail[k].op = "prev" /\ forward(k - 1))
         => trail[k].to = trail[k - 2].to
  /\ \A k \in 1..Len(trail) :
       k + imgs <= Len(trail) /\ (\A j \in (k + 1)..(k + imgs) : forward(j))
         => trail[k + imgs].to = trail[k].to

\* three slides: prev from slide 0, then three next steps in a row, the first
\* of them undoing the prev and the last one wrapping from slide 2 to slide 0
C12_Witness ==
  /\ imgs = 3
  /\ Len(trail) = 4
  /\ trail[1].op = "prev" /\ trail[1].to = 2
  /\ trail[2].op = "next" /\ trail[3].op = "next" /\ trail[4].op = "next"
  /\ index = 2


\* C13: the timer fires every 4000 ms for as long as the page lives, and each
\* firing advances exactly one slide; a click on prev or next leaves the time
\* to the next firing as it was, so the timer can replace a clicked slide
\* less than 4000 ms after the click.
C13_TimerEvery4000 ==
  /\ []<>(since = 0 /\ trail[Len(trail)].op = "timer")
  /\ [](since <= 4000)
  /\ [][since' < since =>
          /\ since = 4000 /\ since' = 0
          /\ trail'[Len(trail')].op = "timer"
          /\ index' = (index + 1) % imgs]_vars
  /\ [][trail' # trail /\ trail'[Len(trail')].op \in {"prev", "next"} => since' = since]_vars

\* prev was clicked 2000 ms after a firing, and the timer replaced the clicked
\* slide 2000 ms later
C13_Witness ==
  /\ Len(trail) >= 2
  /\ trail[Len(trail)].op = "timer"
  /\ trail[Len(trail) - 1].op = "prev"
  /\ trail[Len(trail) - 1].at = 2000
  /\ since = 0

\* C14: in each canvas background at most one animation-frame request is
\* outstanding at any time, whatever the interleaving of frame callbacks,
\* resize, pointer and visibilitychange events: a frame callback uses the one
\* outstanding request and leaves exactly one, on every path through the frame
\* function; a resize and a pointer event leave the number as it is; in the 3D
\* web showing the page leaves exactly one request and hiding it leaves none.
C14_OneRequest ==
  /\ [](pending \in {0, 1})
  /\ [][ /\ frameCallback => (pending = 1 /\ pending' = 1)
         /\ (vp' # vp \/ mouseActive' # mouseActive) => pending' = pending
         /\ (script = "web" /\ hidden /\ ~hidden') => (pending' = 1 /\ rafId' = "set")
         /\ (script = "web" /\ ~hidden /\ hidden') => (pending' = 0 /\ rafId' = "null")
      ]_vars

\* the shortest and the longest step between two frame callbacks.  The limiter
\* of 30 fps lets a frame through 34 ms after the last one: a callback that is
\* held back came MinDt after a frame, and the one after it is let through.
MinDt == CHOOSE d \in DtSet : \A e \in DtSet : d <= e
MaxDt == CHOOSE d \in DtSet : \A e \in DtSet : e <= d
Horizon == MinDt + MaxDt

\* the clock values the callbacks can produce that leave room for two more
ShowTimes == {t \in 0..(MaxTime - Horizon) : t % MinDt = 0}

\* C15: in each canvas background the loop is never without an outstanding
\* request while the page is visible, and with the callbacks being delivered
\* every moment the page is visible (so every moment after a visibilitychange
\* to visible) is followed by a frame rendered later than it, unless the page
\* is hidden again first.  The clock of the model ends at MaxTime, so the
\* moments are those that leave room for two callbacks.
C15_ResumesWhenVisible ==
  /\ [](~hidden => pending = 1)
  /\ \A t \in ShowTimes :
       (~hidden /\ now = t) ~> (hidden \/ (drawn # <<>> /\ drawn[Len(drawn)].t > t))

\* C16: the element shows the first charIndex characters of words[wordIndex],
\* with 0 <= charIndex <= the word's length and 0 <= wordIndex < the number of
\* words, and each tick makes the text one character longer while typing and
\* one character shorter while erasing.
C16_TextIsPrefix ==
  /\ [](/\ wordIndex \in 0..(Len(words(tscript)) - 1)
        /\ charIndex \in 0..Len(words(tscript)[wordIndex + 1])
        /\ text = SubSeq(words(tscript)[wordIndex + 1], 1, charIndex))
  /\ [][IF typing THEN Len(text') = Len(text) + 1
                  ELSE Len(text') = Len(text) - 1]_vars

\* typeEffect is erasing its second word and has five characters of it left
C16_Witness ==
  /\ tscript = "effect" /\ ~typing /\ wordIndex = 1 /\ charIndex = 5
  /\ text = <<"M", "a", "c", "h", "i">>

typeSpeed(s) == IF s = "effect" THEN effect_typeSpeed ELSE header_typeSpeed
holdDelay(s) == IF s = "effect" THEN effect_holdDelay ELSE header_holdDelay

\* C17: the typewriter turns to erasing exactly at the tick that shows the word
\* in full, and the next tick is then scheduled with holdDelay, not typeSpeed;
\* a tick shortens the text only while the word last shown in full is the
\* current one; it turns back to typing exactly at the tick that empties the
\* text, and the next tick is then scheduled with nextDelay; wordIndex changes
\* only at the tick at which the text becomes empty.
C17_PhaseOrder ==
  /\ [](~typing => shown = wordIndex + 1)
  /\ [][LET word == words(tscript)[wordIndex + 1]
        IN  /\ (typing /\ ~typing') <=> (typing /\ text' = word)
            /\ (typing /\ text' = word)
                 => (timer' = holdDelay(tscript) /\ timer' # typeSpeed(tscript))
            /\ Len(text') < Len(text) => (~typing /\ shown = wordIndex + 1)
            /\ (~typing /\ typing') <=> (~typing /\ text' = <<>>)
            /\ (~typing /\ text' = <<>>) => timer' = nextDelay
            /\ wordIndex' # wordIndex => (text # <<>> /\ text' = <<>>)
            /\ (text # <<>> /\ text' = <<>>)
                 => wordIndex' = (wordIndex + 1) % Len(words(tscript))
      ]_vars

\* tick has typed the whole of its second word and waits holdDelay to erase it
C17_Witness ==
  /\ tscript = "header" /\ wordIndex = 1 /\ ~typing /\ shown = 2
  /\ text = words_header[2] /\ timer = header_holdDelay

\* the text t is the beginning of the word w
isPrefix(t, w) == Len(t) <= Len(w) /\ t = SubSeq(w, 1, Len(t))

\* C18: with typeRole/eraseRole and typeEffect both running on #role-text, the
\* text of the element is always the beginning of one entry of a word list
C18_SinglePrefix ==
  \E w \in {roles[i] : i \in 1..Len(roles)} \cup {words_effect[i] : i \in 1..Len(words_effect)} :
    isPrefix(text, w)

\* what of a message is the same for every request, and what the request fills
fixedPart ==
  [exceptions |-> "true", To |-> recipient, Subject |-> "New message from portfolio"]
posted(p) ==
  [k \in {"From", "FromName", "Body.Name", "Body.Email", "Body.Message"} |->
     field(p, CASE k \in {"From", "Body.Email"} -> "email"
                [] k \in {"FromName", "Body.Name"} -> "name"
                [] OTHER -> "message")]

\* C19: whatever the request posts, the mailer and every message handed to
\* send() have the fixed owner address as their one recipient and the fixed
\* SMTP host, port, credentials and subject; the posted values are found in the
\* From address and name and in the body, and nowhere else.
C19_FixedRecipient ==
  /\ \A k \in DOMAIN mailer :
       /\ k \in DOMAIN smtp \cup DOMAIN fixedPart \cup DOMAIN posted(post)
       /\ k \in DOMAIN smtp => mailer[k] = smtp[k]
       /\ k \in DOMAIN fixedPart => mailer[k] = fixedPart[k]
       /\ k \in DOMAIN posted(post) => mailer[k] = posted(post)[k]
  /\ \A i \in 1..Len(forwarded) :
       /\ DOMAIN forwarded[i] = DOMAIN smtp \cup DOMAIN fixedPart \cup DOMAIN posted(post)
       /\ forwarded[i] = mailer

\* a request with all three fields was handed to send() and delivered
C19_Witness ==
  /\ post = [name |-> "Ann", email |-> "ann@example.com", message |-> "Hello"]
  /\ Len(forwarded) = 1 /\ forwarded[1].To = recipient
  /\ forwarded[1].From = "ann@example.com" /\ echoed = <<successText>>

\* ------------------------------------- part_006 / part_000: the tesseract
\* i < 16 in the loops over the vertices
vertexCount == 16

\* i & m for m a power of two
bitAnd(i, m) == ((i \div m) % 2) * m

\* [x, y, z, w4] of vertex i
vertex(i) ==
  << IF bitAnd(i, 1) # 0 THEN 1 ELSE -1,
     IF bitAnd(i, 2) # 0 THEN 1 ELSE -1,
     IF bitAnd(i, 4) # 0 THEN 1 ELSE -1,
     IF bitAnd(i, 8) # 0 THEN 1 ELSE -1 >>

\* a count that leaves the fourth coordinate out
diffOfThree(a, b) == Cardinality({k \in 1..3 : a[k] # b[k]})

\* let diff = 0; for k < 4: if (a[k] !== b[k]) diff++
diff(a, b) == Cardinality({k \in 1..4 : a[k] # b[k]})

\* the script is loaded: both arrays are empty and the vertex loop starts
BuildInit ==
  /\ bscript \in {"tesseract", "wave"}
  /\ verts4 = <<>>
  /\ edges = <<>>
  /\ vi = 0
  /\ vj = 0
  /\ bpc = "verts"
  /\ canvasIdle /\ mailIdle /\ typeIdle /\ navIdle /\ sliderIdle

\* one turn of for (let i = 0; i < 16; i++) verts4.push([x, y, z, w4])
PushVertex ==
  /\ bpc = "verts"
  /\ IF vi < vertexCount
       THEN /\ verts4' = Append(verts4, vertex(vi))
            /\ vi' = vi + 1
            /\ UNCHANGED <<vj, bpc>>
       ELSE /\ bpc' = "edges"
            /\ vi' = 0
            /\ vj' = 1
            /\ UNCHANGED verts4
  /\ UNCHANGED <<bscript, edges>>
  /\ UNCHANGED <<canvasVars, mailVars, typeVars, navVars, sliderVars>>

\* one turn of the loops over i and j = i + 1 .. 15 that push [i, j]
PushEdge ==
  /\ bpc = "edges"
  /\ IF vi >= vertexCount
       THEN bpc' = "done" /\ UNCHANGED <<vi, vj, edges>>
       ELSE IF vj >= vertexCount
              THEN vi' = vi + 1 /\ vj' = vi + 2 /\ UNCHANGED <<bpc, edges>>
              ELSE /\ edges' = IF diff(verts4[vi + 1], verts4[vj + 1]) = 1
                                 THEN Append(edges, <<vi, vj>>)
                                 ELSE edges
                   /\ vj' = vj + 1
                   /\ UNCHANGED <<vi, bpc>>
  /\ UNCHANGED <<bscript, verts4>>
  /\ UNCHANGED <<canvasVars, mailVars, typeVars, navVars, sliderVars>>

BuildNext == PushVertex \/ PushEdge

SpecBuild == BuildInit /\ [][BuildNext]_vars

\* C20: when both loops are done there are 16 vertices, every combination of
\* signs (+-1, +-1, +-1, +-1) among them; the edge list has 32 entries, no two
\* alike, and they are the pairs [i, j] with i < j of vertices that differ in
\* exactly one coordinate; every vertex is an end of exactly 4 edges.
C20_Tesseract ==
  bpc = "done" =>
    /\ Len(verts4) = 16
    /\ {verts4[i] : i \in 1..Len(verts4)} = {<<x, y, z, w>> : x \in {-1, 1}, y \in {-1, 1}, z \in {-1, 1}, w \in {-1, 1}}
    /\ Len(edges) = 32
    /\ Cardinality({edges[e] : e \in 1..Len(edges)}) = 32
    /\ {edges[e] : e \in 1..Len(edges)}
         = {p \in (0..15) \X (0..15) :
              /\ p[1] < p[2]
              /\ Cardinality({k \in 1..4 : verts4[p[1] + 1][k] # verts4[p[2] + 1][k]}) = 1}
    /\ \A v \in 0..15 :
         Cardinality({e \in 1..Len(edges) : v \in {edges[e][1], edges[e][2]}}) = 4

\* the tesseract script has run both loops to their end
C20_Witness ==
  /\ bscript = "tesseract" /\ bpc = "done" /\ Len(verts4) = 16 /\ Len(edges) = 32
  /\ edges[1] = <<0, 1>> /\ edges[32] = <<14, 15>>

====
